---- MODULE Spec2Model ----
(***************************************************************************)
(* pocketscion-configurator: main.rs reads a JSON document, builds the     *)
(* SCION topology, registers SNAPs, endhost APIs and routers in the system *)
(* state and the IO config, starts the runtime and writes the SNAP token.  *)
(***************************************************************************)
EXTENDS FiniteSets, Integers, Sequences, TLC

(***************************************************************************)
(* Bounds of the input documents.                                          *)
(***************************************************************************)
MaxAses == 2
MaxLinks == 2
MaxSnaps == 2
MaxDataPlanes == 2
MaxApis == 2
MaxIsds == 2
MaxRouters == 1
MaxIfs == 3

SeqUpTo(S, n) == UNION {[1..k -> S] : k \in 0..n}

Range(s) == {s[k] : k \in 1..Len(s)}

(***************************************************************************)
(* Texts of the document.  An ISD-AS text "1-11" is the sequence of its    *)
(* dash-separated numeric parts; a link text is the sequence of its        *)
(* endpoint texts; a socket address or prefix text is a token.             *)
(***************************************************************************)
IsdAsStrings == {<<1, 11>>, <<1, 12>>, <<1>>}

LinkStrings == {<< <<1, 11>>, <<1, 12>> >>, << <<1, 12>>, <<1, 11>> >>, << <<1, 11>> >>}

MissingAddr == "missing"

BadPrefix == "10.0.0.0/240"

InterfaceIds == {0, 1, 2}

(***************************************************************************)
(* Results and errors.                                                     *)
(***************************************************************************)
NoErr == [kind |-> "none", stage |-> "none", index |-> 0, sub |-> 0]

Err(kind, stage, index, sub) == [kind |-> kind, stage |-> stage, index |-> index, sub |-> sub]

NoIsdAsn == [isd |-> 0, asn |-> 0]

\* scion_proto IsdAsn::from_str: exactly two numeric parts
IsdAsn_parse(s) ==
  IF Len(s) = 2
    THEN [ok |-> TRUE, val |-> [isd |-> s[1], asn |-> s[2]]]
    ELSE [ok |-> FALSE, val |-> NoIsdAsn]

\* ScionLink::from_str: two endpoints, each an ISD-AS
ScionLink_parse(l) ==
  IF Len(l) = 2 /\ IsdAsn_parse(l[1]).ok /\ IsdAsn_parse(l[2]).ok
    THEN [ok |-> TRUE, a |-> IsdAsn_parse(l[1]).val, b |-> IsdAsn_parse(l[2]).val]
    ELSE [ok |-> FALSE, a |-> NoIsdAsn, b |-> NoIsdAsn]

(***************************************************************************)
(* ScionTopology                                                           *)
(***************************************************************************)
ScionTopology_new == [ases |-> <<>>, links |-> <<>>]

TopoIds(topo) == {topo.ases[k].isd_as : k \in 1..Len(topo.ases)}

\* ScionTopology::add_as: DuplicateAs when the identifier is present
add_as(topo, scion_as) ==
  IF scion_as.isd_as \in TopoIds(topo)
    THEN [ok |-> FALSE, topo |-> topo]
    ELSE [ok |-> TRUE, topo |-> [topo EXCEPT !.ases = Append(@, scion_as)]]

\* ScionTopology::add_link: UnknownAsInLink when an endpoint is absent
add_link(topo, link) ==
  IF link.a \in TopoIds(topo) /\ link.b \in TopoIds(topo)
    THEN [ok |-> TRUE, topo |-> [topo EXCEPT !.links = Append(@, [a |-> link.a, b |-> link.b])]]
    ELSE [ok |-> FALSE, topo |-> topo]

MakeScionAsSwapped(as_config, isd_asn) == [isd_as |-> isd_asn, core |-> ~as_config.is_core]

\* main.rs 163-167: ScionAs::new_core for a core AS, ScionAs::new otherwise
MakeScionAs(as_config, isd_asn) == [isd_as |-> isd_asn, core |-> as_config.is_core]

TopoResult(ok, topo, err) == [ok |-> ok, topo |-> topo, err |-> err]

RECURSIVE AddAllAsesLenient(_, _, _)
AddAllAsesLenient(ases, k, topo) ==
  IF k > Len(ases) THEN TopoResult(TRUE, topo, NoErr)
  ELSE LET p == IsdAsn_parse(ases[k].isd_as)
       IN IF ~p.ok THEN TopoResult(FALSE, topo, Err("InvalidIdentifier", "ases", k, 0))
          ELSE AddAllAsesLenient(ases, k + 1, add_as(topo, MakeScionAs(ases[k], p.val)).topo)

\* main.rs 161-168: the loop over config.ases, from position k on
RECURSIVE AddAllAses(_, _, _)
AddAllAses(ases, k, topo) ==
  IF k > Len(ases) THEN TopoResult(TRUE, topo, NoErr)
  ELSE LET p == IsdAsn_parse(ases[k].isd_as)
       IN IF ~p.ok THEN TopoResult(FALSE, topo, Err("InvalidIdentifier", "ases", k, 0))
          ELSE LET r == add_as(topo, MakeScionAs(ases[k], p.val))
               IN IF ~r.ok THEN TopoResult(FALSE, topo, Err("DuplicateAs", "ases", k, 0))
                  ELSE AddAllAses(ases, k + 1, r.topo)

\* main.rs 171-173: the loop over config.links, from position k on
RECURSIVE AddAllLinks(_, _, _)
AddAllLinks(links, k, topo) ==
  IF k > Len(links) THEN TopoResult(TRUE, topo, NoErr)
  ELSE LET p == ScionLink_parse(links[k])
       IN IF ~p.ok THEN TopoResult(FALSE, topo, Err("InvalidLinkSpec", "links", k, 0))
          ELSE LET r == add_link(topo, p)
               IN IF ~r.ok THEN TopoResult(FALSE, topo, Err("UnknownAsInLink", "links", k, 0))
                  ELSE AddAllLinks(links, k + 1, r.topo)

build_topology_links_first(config) ==
  LET l == AddAllLinks(config.links, 1, ScionTopology_new)
  IN IF ~l.ok THEN l ELSE AddAllAses(config.ases, 1, l.topo)

build_topology_keep_going(config) ==
  LET a == AddAllAsesLenient(config.ases, 1, ScionTopology_new)
  IN IF ~a.ok THEN a ELSE AddAllLinks(config.links, 1, a.topo)

\* main.rs 157-176
build_topology_from_config(config) ==
  LET a == AddAllAses(config.ases, 1, ScionTopology_new)
  IN IF ~a.ok THEN a ELSE AddAllLinks(config.links, 1, a.topo)

(***************************************************************************)
(* The configuration document (PocketScionConfig and its parts).           *)
(***************************************************************************)
None == [some |-> FALSE, val |-> <<>>]

Some(v) == [some |-> TRUE, val |-> v]

AsConfigs == [isd_as : IsdAsStrings, is_core : BOOLEAN]

TopologyConfigs == [ases : SeqUpTo(AsConfigs, MaxAses), links : SeqUpTo(LinkStrings, MaxLinks)]

GoodTopology ==
  [ases |-> <<[isd_as |-> <<1, 11>>, is_core |-> TRUE], [isd_as |-> <<1, 12>>, is_core |-> FALSE]>>,
   links |-> << << <<1, 11>>, <<1, 12>> >> >>]

DataPlane(isd_as, prefix) ==
  [isd_as |-> isd_as, listening_addr |-> "127.0.0.1:9001", address_range |-> <<prefix>>]

GoodDataPlane == DataPlane(<<1, 12>>, "10.0.0.0/24")

DataPlaneConfigs == {GoodDataPlane, DataPlane(<<1>>, "10.0.0.0/24")}

Snap(addr, dps) == [listening_addr |-> addr, data_planes |-> dps]

GoodSnap == Snap("127.0.0.1:9000", <<GoodDataPlane>>)

SnapConfigs ==
  {Snap("127.0.0.1:9000", dps) : dps \in SeqUpTo(DataPlaneConfigs, MaxDataPlanes)}
    \cup {Snap(MissingAddr, <<GoodDataPlane>>),
          Snap("127.0.0.1:9000", <<GoodDataPlane, DataPlane(<<1, 12>>, BadPrefix)>>)}

Api(isds) == [isds |-> isds, listening_addr |-> "127.0.0.1:9002"]

GoodApi == Api(<< <<1, 11>> >>)

ApiConfigs == {Api(isds) : isds \in SeqUpTo({<<1, 11>>, <<1>>}, MaxIsds)}

Router(isd_as, interfaces) ==
  [isd_as |-> isd_as, interfaces |-> interfaces,
   local_addresses |-> <<"10.1.0.0/24">>, next_hops |-> <<"127.0.0.1:9003">>]

GoodRouter == Router(<<1, 11>>, <<1, 2>>)

RouterConfigs ==
  {Router(<<1, 11>>, ifs) : ifs \in SeqUpTo(InterfaceIds, MaxIfs)} \cup {Router(<<1>>, <<1>>)}

Doc(topology, snaps, endhost_apis, routers) ==
  [topology |-> topology, snaps |-> snaps, endhost_apis |-> endhost_apis,
   routers |-> routers, management_listen_addr |-> "127.0.0.1:8000"]

Docs ==
  {Doc(t, Some(<<GoodSnap>>), Some(<<GoodApi>>), Some(<<GoodRouter>>)) : t \in TopologyConfigs}
    \cup {Doc(GoodTopology, Some(s), Some(<<GoodApi>>), Some(<<GoodRouter>>)) :
            s \in SeqUpTo(SnapConfigs, MaxSnaps)}
    \cup {Doc(GoodTopology, Some(<<GoodSnap>>), Some(a), Some(<<GoodRouter>>)) :
            a \in SeqUpTo(ApiConfigs, MaxApis)}
    \cup {Doc(GoodTopology, Some(<<GoodSnap>>), Some(<<GoodApi>>), Some(r)) :
            r \in SeqUpTo(RouterConfigs, MaxRouters)}
    \cup {Doc(GoodTopology, Some(<<GoodSnap, Snap("127.0.0.1:9000", <<GoodDataPlane, GoodDataPlane>>)>>),
              Some(<<GoodApi, GoodApi>>), Some(<<GoodRouter, r>>)) :
            r \in {Router(<<1, 12>>, <<2>>), Router(<<1, 12>>, <<1, 2, 0>>), Router(<<1, 12>>, <<>>)}}
    \cup {Doc(GoodTopology, None, None, None),
          Doc(GoodTopology, None, Some(<<GoodApi>>), Some(<<GoodRouter>>)),
          Doc(GoodTopology, Some(<<GoodSnap>>), None, Some(<<GoodRouter>>)),
          Doc(GoodTopology, Some(<<GoodSnap>>), Some(<<GoodApi>>), None)}

(***************************************************************************)
(* serde_json::from_str into PocketScionConfig: the SocketAddr and IpNet   *)
(* fields are parsed here, the isd_as, isds and links fields stay text.    *)
(***************************************************************************)
SocketAddr_ok(a) == a # MissingAddr

IpNet_ok(p) == p # BadPrefix

SocketAddr(a) == [sock |-> a]

IpNet(p) == [net |-> p]

DataPlaneConfig_ok(dp) ==
  SocketAddr_ok(dp.listening_addr) /\ \A m \in 1..Len(dp.address_range) : IpNet_ok(dp.address_range[m])

SnapConfig_okLenient(s) ==
  \A k \in 1..Len(s.data_planes) : DataPlaneConfig_ok(s.data_planes[k])

\* main.rs 213-218: both fields are required and typed
SnapConfig_ok(s) ==
  SocketAddr_ok(s.listening_addr) /\ \A k \in 1..Len(s.data_planes) : DataPlaneConfig_ok(s.data_planes[k])

EndhostApiConfig_ok(a) == SocketAddr_ok(a.listening_addr)

RouterConfig_ok(r) ==
  /\ \A k \in 1..Len(r.local_addresses) : IpNet_ok(r.local_addresses[k])
  /\ \A k \in 1..Len(r.next_hops) : SocketAddr_ok(r.next_hops[k])

PocketScionConfig_ok(d) ==
  /\ \A k \in 1..Len(d.snaps.val) : SnapConfig_ok(d.snaps.val[k])
  /\ \A k \in 1..Len(d.endhost_apis.val) : EndhostApiConfig_ok(d.endhost_apis.val[k])
  /\ \A k \in 1..Len(d.routers.val) : RouterConfig_ok(d.routers.val[k])
  /\ SocketAddr_ok(d.management_listen_addr)

TypedDataPlane(dp) ==
  [isd_as |-> dp.isd_as, listening_addr |-> SocketAddr(dp.listening_addr),
   address_range |-> [m \in 1..Len(dp.address_range) |-> IpNet(dp.address_range[m])]]

TypedSnap(s) ==
  [listening_addr |-> SocketAddr(s.listening_addr),
   data_planes |-> [k \in 1..Len(s.data_planes) |-> TypedDataPlane(s.data_planes[k])]]

TypedApi(a) == [isds |-> a.isds, listening_addr |-> SocketAddr(a.listening_addr)]

TypedRouter(r) ==
  [isd_as |-> r.isd_as, interfaces |-> r.interfaces,
   local_addresses |-> [k \in 1..Len(r.local_addresses) |-> IpNet(r.local_addresses[k])],
   next_hops |-> [k \in 1..Len(r.next_hops) |-> SocketAddr(r.next_hops[k])]]

TypedConfig(d) ==
  [topology |-> d.topology,
   snaps |-> [some |-> d.snaps.some, val |-> [k \in 1..Len(d.snaps.val) |-> TypedSnap(d.snaps.val[k])]],
   endhost_apis |-> [some |-> d.endhost_apis.some,
                     val |-> [k \in 1..Len(d.endhost_apis.val) |-> TypedApi(d.endhost_apis.val[k])]],
   routers |-> [some |-> d.routers.some,
                val |-> [k \in 1..Len(d.routers.val) |-> TypedRouter(d.routers.val[k])]],
   management_listen_addr |-> SocketAddr(d.management_listen_addr)]

NoConfig == TypedConfig(Doc([ases |-> <<>>, links |-> <<>>], None, None, None))

\* main.rs 49-50
from_str(d) ==
  IF PocketScionConfig_ok(d) THEN [ok |-> TRUE, val |-> TypedConfig(d)]
  ELSE [ok |-> FALSE, val |-> NoConfig]

(***************************************************************************)
(* SharedPocketScionState: the entities, each keyed by a generated         *)
(* identifier drawn from one counter in declaration order.                 *)
(***************************************************************************)
SharedPocketScionState_new ==
  [topology |-> ScionTopology_new, snaps |-> <<>>, data_planes |-> <<>>,
   endhost_apis |-> <<>>, routers |-> <<>>, next_id |-> 0]

set_topology(st, topo) == [st EXCEPT !.topology = topo]

\* the identifier the next registered entity receives
FreshId(st) == st.next_id

add_snap(st) ==
  [id |-> FreshId(st),
   state |-> [st EXCEPT !.snaps = Append(@, [id |-> FreshId(st)]), !.next_id = @ + 1]]

add_snap_data_plane(st, snap_id, isd_as, address_range) ==
  [id |-> FreshId(st),
   state |-> [st EXCEPT !.data_planes = Append(@, [id |-> FreshId(st), snap |-> snap_id,
                                                   isd_as |-> isd_as,
                                                   address_range |-> address_range]),
                        !.next_id = @ + 1]]

add_endhost_api(st, isds) ==
  [id |-> FreshId(st),
   state |-> [st EXCEPT !.endhost_apis = Append(@, [id |-> FreshId(st), isds |-> isds]),
                        !.next_id = @ + 1]]

add_router(st, isd_as, interfaces, local_addresses, next_hops) ==
  [id |-> FreshId(st),
   state |-> [st EXCEPT !.routers = Append(@, [id |-> FreshId(st), isd_as |-> isd_as,
                                               interfaces |-> interfaces,
                                               local_addresses |-> local_addresses,
                                               next_hops |-> next_hops]),
                        !.next_id = @ + 1]]

(***************************************************************************)
(* SharedPocketScionIoConfig: identifier -> listening address, one map per *)
(* kind of listener; setting an identifier again replaces its address.     *)
(***************************************************************************)
SharedPocketScionIoConfig_new ==
  [snap_control_addrs |-> {}, snap_data_plane_addrs |-> {}, endhost_api_addrs |-> {}]

Put(m, id, addr) == {b \in m : b[1] # id} \cup {<<id, addr>>}

set_snap_control_addr(io, id, addr) == [io EXCEPT !.snap_control_addrs = Put(@, id, addr)]

set_snap_data_plane_addr(io, id, addr) == [io EXCEPT !.snap_data_plane_addrs = Put(@, id, addr)]

set_endhost_api_addr(io, id, addr) == [io EXCEPT !.endhost_api_addrs = Put(@, id, addr)]

(***************************************************************************)
(* The registration steps of main.                                         *)
(***************************************************************************)
StepResult(ok, kind, sub, st, io) == [ok |-> ok, kind |-> kind, sub |-> sub, state |-> st, io |-> io]

\* main.rs 68-71
RegisterSnap(st, io, snap) ==
  LET r == add_snap(st)
  IN [id |-> r.id, state |-> r.state, io |-> set_snap_control_addr(io, r.id, snap.listening_addr)]

RegisterDataPlaneUnderSnap(st, io, snap_id, dp) ==
  LET p == IsdAsn_parse(dp.isd_as)
  IN IF ~p.ok THEN StepResult(FALSE, "InvalidIdentifier", 0, st, io)
     ELSE LET r == add_snap_data_plane(st, snap_id, p.val, dp.address_range)
          IN StepResult(TRUE, "none", 0, r.state,
                        set_snap_data_plane_addr(io, snap_id, dp.listening_addr))

\* main.rs 75-86
RegisterDataPlane(st, io, snap_id, dp) ==
  LET p == IsdAsn_parse(dp.isd_as)
  IN IF ~p.ok THEN StepResult(FALSE, "InvalidIdentifier", 0, st, io)
     ELSE LET r == add_snap_data_plane(st, snap_id, p.val, dp.address_range)
          IN StepResult(TRUE, "none", 0, r.state,
                        set_snap_data_plane_addr(io, r.id, dp.listening_addr))

CollectResult(ok, at, val) == [ok |-> ok, at |-> at, val |-> val]

RECURSIVE collect_isds_skipping(_, _, _)
collect_isds_skipping(isds, k, acc) ==
  IF k > Len(isds) THEN CollectResult(TRUE, 0, acc)
  ELSE LET p == IsdAsn_parse(isds[k])
       IN collect_isds_skipping(isds, k + 1, IF p.ok THEN Append(acc, p.val) ELSE acc)

\* main.rs 94-98: collect stops at the first text that does not parse
RECURSIVE collect_isds(_, _, _)
collect_isds(isds, k, acc) ==
  IF k > Len(isds) THEN CollectResult(TRUE, 0, acc)
  ELSE LET p == IsdAsn_parse(isds[k])
       IN IF ~p.ok THEN CollectResult(FALSE, k, acc)
          ELSE collect_isds(isds, k + 1, Append(acc, p.val))

\* main.rs 94-100
RegisterEndhostApi(st, io, api) ==
  LET c == collect_isds(api.isds, 1, <<>>)
  IN IF ~c.ok THEN StepResult(FALSE, "InvalidIdentifier", c.at, st, io)
     ELSE LET r == add_endhost_api(st, c.val)
          IN StepResult(TRUE, "none", 0, r.state,
                        set_endhost_api_addr(io, r.id, api.listening_addr))

NonZeroU16_new_wrapping(n) == [some |-> TRUE, val |-> n]

\* std NonZeroU16::new, main.rs 111
NonZeroU16_new(n) == IF n = 0 THEN [some |-> FALSE, val |-> 0] ELSE [some |-> TRUE, val |-> n]

RECURSIVE CollectFrom(_, _, _)
CollectFrom(ifs, k, acc) ==
  IF k > Len(ifs) THEN CollectResult(TRUE, 0, acc)
  ELSE LET n == NonZeroU16_new(ifs[k])
       IN IF ~n.some THEN CollectResult(FALSE, k, acc)
          ELSE CollectFrom(ifs, k + 1, Append(acc, n.val))

collect_interfaces_first_only(ifs) ==
  IF Len(ifs) > 0 /\ ~NonZeroU16_new(ifs[1]).some THEN CollectResult(FALSE, 1, <<>>)
  ELSE CollectResult(TRUE, 0, ifs)

\* main.rs 108-112: collect stops at the first interface id that is zero
collect_interfaces(ifs) == CollectFrom(ifs, 1, <<>>)

\* main.rs 107-119
RegisterRouter(st, io, router) ==
  LET p == IsdAsn_parse(router.isd_as)
  IN IF ~p.ok THEN StepResult(FALSE, "InvalidIdentifier", 0, st, io)
     ELSE LET c == collect_interfaces(router.interfaces)
          IN IF ~c.ok THEN StepResult(FALSE, "InvalidInterfaceId", c.at, st, io)
             ELSE StepResult(TRUE, "none", 0,
                             add_router(st, p.val, c.val, router.local_addresses,
                                        router.next_hops).state, io)

NextPhaseRoutersFirst(p) ==
  CASE p = "snaps" -> "routers" [] p = "routers" -> "endhost_apis" [] p = "endhost_apis" -> "start"

\* main.rs 64-123: SNAPs, then endhost APIs, then routers, then the runtime
NextPhase(p) ==
  CASE p = "snaps" -> "endhost_apis" [] p = "endhost_apis" -> "routers" [] p = "routers" -> "start"

LoopDoneEarly(i, list) == i >= Len(list)

\* a for loop over list is finished once its position is past the last element
LoopDone(i, list) == i > Len(list)

(***************************************************************************)
(* main                                                                    *)
(***************************************************************************)
VARIABLES doc, pocket_scion, topology, system_state, io_config, snap_id, pc, i, j, err,
          started, runtime, token_written

vars == <<doc, pocket_scion, topology, system_state, io_config, snap_id, pc, i, j, err,
          started, runtime, token_written>>

NoRuntime == [system_state |-> SharedPocketScionState_new, io_config |-> SharedPocketScionIoConfig_new,
              mgmt_listen_addr |-> SocketAddr(MissingAddr)]

Init ==
  /\ doc \in Docs
  /\ pocket_scion = NoConfig
  /\ topology = ScionTopology_new
  /\ system_state = SharedPocketScionState_new
  /\ io_config = SharedPocketScionIoConfig_new
  /\ snap_id = 0
  /\ pc = "read"
  /\ i = 0
  /\ j = 0
  /\ err = NoErr
  /\ started = 0
  /\ runtime = NoRuntime
  /\ token_written = FALSE

Fail(e) == pc' = "failed" /\ err' = e

\* main.rs 46-47
ReadConfig ==
  /\ pc = "read"
  /\ \E readable \in BOOLEAN :
       IF readable THEN pc' = "parse" /\ err' = err ELSE Fail(Err("ReadError", "read", 0, 0))
  /\ UNCHANGED <<doc, pocket_scion, topology, system_state, io_config, snap_id, i, j,
                 started, runtime, token_written>>

\* main.rs 49-50
ParseConfig ==
  /\ pc = "parse"
  /\ LET r == from_str(doc)
     IN IF r.ok THEN pc' = "topology" /\ pocket_scion' = r.val /\ err' = err
        ELSE Fail(Err("MalformedDocument", "parse", 0, 0)) /\ pocket_scion' = pocket_scion
  /\ UNCHANGED <<doc, topology, system_state, io_config, snap_id, i, j, started, runtime,
                 token_written>>

\* main.rs 53
BuildTopology ==
  /\ pc = "topology"
  /\ LET r == build_topology_from_config(pocket_scion.topology)
     IN IF r.ok THEN pc' = "state" /\ topology' = r.topo /\ err' = err
        ELSE Fail(r.err) /\ topology' = topology
  /\ UNCHANGED <<doc, pocket_scion, system_state, io_config, snap_id, i, j, started, runtime,
                 token_written>>

\* main.rs 58-62
CreateState ==
  /\ pc = "state"
  /\ system_state' = set_topology(SharedPocketScionState_new, topology)
  /\ io_config' = SharedPocketScionIoConfig_new
  /\ pc' = "snaps"
  /\ i' = 1
  /\ UNCHANGED <<doc, pocket_scion, topology, snap_id, j, err, started, runtime, token_written>>

\* main.rs 66-71
AddSnap ==
  /\ pc = "snaps"
  /\ ~LoopDone(i, pocket_scion.snaps.val)
  /\ LET r == RegisterSnap(system_state, io_config, pocket_scion.snaps.val[i])
     IN system_state' = r.state /\ io_config' = r.io /\ snap_id' = r.id
  /\ pc' = "data_planes"
  /\ j' = 1
  /\ UNCHANGED <<doc, pocket_scion, topology, i, err, started, runtime, token_written>>

\* main.rs 73-87
AddSnapDataPlane ==
  /\ pc = "data_planes"
  /\ ~LoopDone(j, pocket_scion.snaps.val[i].data_planes)
  /\ LET r == RegisterDataPlane(system_state, io_config, snap_id,
                                pocket_scion.snaps.val[i].data_planes[j])
     IN /\ system_state' = r.state
        /\ io_config' = r.io
        /\ IF r.ok THEN pc' = pc /\ j' = j + 1 /\ err' = err
           ELSE Fail(Err(r.kind, "snaps", i, j)) /\ j' = j
  /\ UNCHANGED <<doc, pocket_scion, topology, snap_id, i, started, runtime, token_written>>

\* main.rs 73, 88: the data planes of this SNAP are done, on to the next SNAP
NextSnap ==
  /\ pc = "data_planes"
  /\ LoopDone(j, pocket_scion.snaps.val[i].data_planes)
  /\ pc' = "snaps"
  /\ i' = i + 1
  /\ UNCHANGED <<doc, pocket_scion, topology, system_state, io_config, snap_id, j, err, started,
                 runtime, token_written>>

\* main.rs 65-66, 89-92
SnapsDone ==
  /\ pc = "snaps"
  /\ LoopDone(i, pocket_scion.snaps.val)
  /\ pc' = NextPhase("snaps")
  /\ i' = 1
  /\ UNCHANGED <<doc, pocket_scion, topology, system_state, io_config, snap_id, j, err, started,
                 runtime, token_written>>

\* main.rs 93-101
AddEndhostApi ==
  /\ pc = "endhost_apis"
  /\ ~LoopDone(i, pocket_scion.endhost_apis.val)
  /\ LET r == RegisterEndhostApi(system_state, io_config, pocket_scion.endhost_apis.val[i])
     IN /\ system_state' = r.state
        /\ io_config' = r.io
        /\ IF r.ok THEN pc' = pc /\ i' = i + 1 /\ err' = err
           ELSE Fail(Err(r.kind, "endhost_apis", i, r.sub)) /\ i' = i
  /\ UNCHANGED <<doc, pocket_scion, topology, snap_id, j, started, runtime, token_written>>

\* main.rs 92-93, 102-105
EndhostApisDone ==
  /\ pc = "endhost_apis"
  /\ LoopDone(i, pocket_scion.endhost_apis.val)
  /\ pc' = NextPhase("endhost_apis")
  /\ i' = 1
  /\ UNCHANGED <<doc, pocket_scion, topology, system_state, io_config, snap_id, j, err, started,
                 runtime, token_written>>

\* main.rs 106-120
AddRouter ==
  /\ pc = "routers"
  /\ ~LoopDone(i, pocket_scion.routers.val)
  /\ LET r == RegisterRouter(system_state, io_config, pocket_scion.routers.val[i])
     IN /\ system_state' = r.state
        /\ io_config' = r.io
        /\ IF r.ok THEN pc' = pc /\ i' = i + 1 /\ err' = err
           ELSE Fail(Err(r.kind, "routers", i, r.sub)) /\ i' = i
  /\ UNCHANGED <<doc, pocket_scion, topology, snap_id, j, started, runtime, token_written>>

\* main.rs 105-106, 121-123
RoutersDone ==
  /\ pc = "routers"
  /\ LoopDone(i, pocket_scion.routers.val)
  /\ pc' = NextPhase("routers")
  /\ i' = 1
  /\ UNCHANGED <<doc, pocket_scion, topology, system_state, io_config, snap_id, j, err,
                 started, runtime, token_written>>

\* main.rs 124-130: the builder takes the state, the IO config and the management address
StartRuntime ==
  /\ pc = "start"
  /\ started' = started + 1
  /\ runtime' = [system_state |-> system_state, io_config |-> io_config,
                 mgmt_listen_addr |-> pocket_scion.management_listen_addr]
  /\ \E up \in BOOLEAN :
       IF up THEN pc' = "token" /\ err' = err ELSE Fail(Err("RuntimeStartError", "start", 0, 0))
  /\ UNCHANGED <<doc, pocket_scion, topology, system_state, io_config, snap_id, i, j,
                 token_written>>

\* main.rs 139-145
WriteToken ==
  /\ pc = "token"
  /\ \E written \in BOOLEAN :
       IF written THEN pc' = "wait" /\ token_written' = TRUE /\ err' = err
       ELSE Fail(Err("TokenWriteError", "token", 0, 0)) /\ token_written' = token_written
  /\ UNCHANGED <<doc, pocket_scion, topology, system_state, io_config, snap_id, i, j,
                 started, runtime>>

\* main.rs 147-153
Shutdown ==
  /\ pc = "wait"
  /\ pc' = "done"
  /\ UNCHANGED <<doc, pocket_scion, topology, system_state, io_config, snap_id, i, j, err,
                 started, runtime, token_written>>

Next ==
  \/ ReadConfig
  \/ ParseConfig
  \/ BuildTopology
  \/ CreateState
  \/ AddSnap
  \/ AddSnapDataPlane
  \/ NextSnap
  \/ SnapsDone
  \/ AddEndhostApi
  \/ EndhostApisDone
  \/ AddRouter
  \/ RoutersDone
  \/ StartRuntime
  \/ WriteToken
  \/ Shutdown

Spec == Init /\ [][Next]_vars

(***************************************************************************)
(* What the document declares, stated on its texts.                        *)
(***************************************************************************)
Min(S) == CHOOSE x \in S : \A y \in S : x <= y

DeclAses == doc.topology.ases

DeclLinks == doc.topology.links

DeclSnaps == doc.snaps.val

DeclApis == doc.endhost_apis.val

DeclRouters == doc.routers.val

DeclDataPlanes ==
  UNION {{<<a, b>> : b \in 1..Len(DeclSnaps[a].data_planes)} : a \in 1..Len(DeclSnaps)}

WellFormedId(t) == Len(t) = 2

IdOf(t) == [isd |-> t[1], asn |-> t[2]]

DeclAsTexts == {DeclAses[k].isd_as : k \in 1..Len(DeclAses)}

\* a SNAP declaration the typed document rejects: no control address, or a bad prefix
UntypedSnaps ==
  {a \in 1..Len(DeclSnaps) :
     \/ DeclSnaps[a].listening_addr = MissingAddr
     \/ \E b \in 1..Len(DeclSnaps[a].data_planes) :
          BadPrefix \in Range(DeclSnaps[a].data_planes[b].address_range)}

BadAses ==
  {k \in 1..Len(DeclAses) :
     \/ ~WellFormedId(DeclAses[k].isd_as)
     \/ \E m \in 1..(k - 1) : DeclAses[m].isd_as = DeclAses[k].isd_as}

WellFormedLink(l) == Len(l) = 2 /\ WellFormedId(l[1]) /\ WellFormedId(l[2])

BadLinks ==
  {k \in 1..Len(DeclLinks) :
     \/ ~WellFormedLink(DeclLinks[k])
     \/ DeclLinks[k][1] \notin DeclAsTexts
     \/ DeclLinks[k][2] \notin DeclAsTexts}

BadDataPlanes == {q \in DeclDataPlanes : ~WellFormedId(DeclSnaps[q[1]].data_planes[q[2]].isd_as)}

BadIsds(a) == {m \in 1..Len(DeclApis[a].isds) : ~WellFormedId(DeclApis[a].isds[m])}

BadApis == {a \in 1..Len(DeclApis) : BadIsds(a) # {}}

ZeroAt(r) == {m \in 1..Len(DeclRouters[r].interfaces) : DeclRouters[r].interfaces[m] = 0}

BadRouters == {r \in 1..Len(DeclRouters) : ~WellFormedId(DeclRouters[r].isd_as) \/ ZeroAt(r) # {}}

\* the first declaration, in processing order, that does not validate
ExpectedErr ==
  IF UntypedSnaps # {} THEN Err("MalformedDocument", "parse", 0, 0)
  ELSE IF BadAses # {} THEN
    LET k == Min(BadAses)
    IN Err(IF WellFormedId(DeclAses[k].isd_as) THEN "DuplicateAs" ELSE "InvalidIdentifier",
           "ases", k, 0)
  ELSE IF BadLinks # {} THEN
    LET k == Min(BadLinks)
    IN Err(IF WellFormedLink(DeclLinks[k]) THEN "UnknownAsInLink" ELSE "InvalidLinkSpec",
           "links", k, 0)
  ELSE IF BadDataPlanes # {} THEN
    LET a == Min({q[1] : q \in BadDataPlanes})
    IN Err("InvalidIdentifier", "snaps", a, Min({q[2] : q \in {x \in BadDataPlanes : x[1] = a}}))
  ELSE IF BadApis # {} THEN
    Err("InvalidIdentifier", "endhost_apis", Min(BadApis), Min(BadIsds(Min(BadApis))))
  ELSE IF BadRouters # {} THEN
    LET r == Min(BadRouters)
    IN IF WellFormedId(DeclRouters[r].isd_as)
         THEN Err("InvalidInterfaceId", "routers", r, Min(ZeroAt(r)))
         ELSE Err("InvalidIdentifier", "routers", r, 0)
  ELSE NoErr

ExpectedTopology ==
  [ases |-> [k \in 1..Len(DeclAses) |->
               [isd_as |-> IdOf(DeclAses[k].isd_as), core |-> DeclAses[k].is_core]],
   links |-> [k \in 1..Len(DeclLinks) |->
                [a |-> IdOf(DeclLinks[k][1]), b |-> IdOf(DeclLinks[k][2])]]]

ValidationFailed == pc = "failed" /\ err.stage \notin {"read", "start", "token"}

TopologyAttempted ==
  pc \notin {"read", "parse", "topology"} /\ ~(pc = "failed" /\ err.stage \in {"read", "parse"})

TopologyBuilt ==
  TopologyAttempted /\ ~(pc = "failed" /\ err.stage \in {"ases", "links"})

Assembled == pc \in {"start", "token", "wait", "done"} \/ (pc = "failed" /\ err.stage \in {"start", "token"})

DataPlanesOf(id) == {k \in 1..Len(system_state.data_planes) : system_state.data_planes[k].snap = id}

Ids(list) == {list[k].id : k \in 1..Len(list)}

AllIds ==
  Ids(system_state.snaps) \cup Ids(system_state.data_planes)
    \cup Ids(system_state.endhost_apis) \cup Ids(system_state.routers)

Registered ==
  Len(system_state.snaps) + Len(system_state.data_planes)
    + Len(system_state.endhost_apis) + Len(system_state.routers)

Bound(m, id) == {b \in m : b[1] = id}

AllBindings ==
  io_config.snap_control_addrs \cup io_config.snap_data_plane_addrs \cup io_config.endhost_api_addrs

(***************************************************************************)
(* C1: loading is fail-fast.  A validation failure is the failure of the   *)
(* first declaration that does not validate, nothing declared after it has *)
(* been processed, and the runtime is started only for a document all of   *)
(* whose declarations validate; a failed load never reaches the runtime.   *)
(***************************************************************************)
NothingAfterFailure ==
  /\ err.stage \in {"parse", "ases", "links"} =>
       system_state = SharedPocketScionState_new /\ io_config = SharedPocketScionIoConfig_new
  /\ err.stage = "snaps" =>
       /\ Len(system_state.snaps) = err.index
       /\ Len(system_state.data_planes)
            = Cardinality({q \in DeclDataPlanes : q[1] < err.index}) + err.sub - 1
       /\ Len(system_state.endhost_apis) = 0
       /\ Len(system_state.routers) = 0
  /\ err.stage = "endhost_apis" =>
       /\ Len(system_state.endhost_apis) = err.index - 1
       /\ Len(system_state.routers) = 0
  /\ err.stage = "routers" => Len(system_state.routers) = err.index - 1

C1_FailFast ==
  /\ ValidationFailed =>
       /\ err = ExpectedErr
       /\ NothingAfterFailure
       /\ started = 0
       /\ runtime = NoRuntime
  /\ ExpectedErr # NoErr => started = 0 /\ pc \notin {"start", "token", "wait", "done"}

C1_Witness ==
  /\ pc = "failed"
  /\ err.kind = "InvalidIdentifier"
  /\ err.stage = "endhost_apis"
  /\ err.index = 2
  /\ Len(system_state.snaps) > 0
  /\ Len(DeclRouters) > 0

(***************************************************************************)
(* C2 as claimed: when a SNAP declaration fails validation, nothing of     *)
(* that SNAP (the SNAP, its control address, its data planes) has been     *)
(* added to the system state or to the IO config.                          *)
(***************************************************************************)
C2_NoPartialSnap ==
  (pc = "failed" /\ err.stage = "snaps") =>
     /\ Len(system_state.snaps) < err.index
     /\ Cardinality(io_config.snap_control_addrs) < err.index
     /\ Len(system_state.data_planes) = Cardinality({q \in DeclDataPlanes : q[1] < err.index})

(***************************************************************************)
(* C2 amended: a SNAP declaration without control address or with an       *)
(* invalid prefix is rejected with the document, before anything is        *)
(* registered.  A data plane whose ISD-AS does not parse fails the load    *)
(* after its SNAP, the SNAP's control address and the SNAP's earlier data  *)
(* planes were registered; the load fails and the runtime is never started *)
(* with that state.                                                        *)
(***************************************************************************)
C2_SnapFailure ==
  /\ UntypedSnaps # {} =>
       /\ system_state = SharedPocketScionState_new
       /\ io_config = SharedPocketScionIoConfig_new
       /\ pc \in {"read", "parse", "failed"}
       /\ started = 0
  /\ BadDataPlanes # {} => started = 0 /\ runtime = NoRuntime
  /\ (pc = "failed" /\ err.stage = "snaps") =>
       /\ ~WellFormedId(DeclSnaps[err.index].data_planes[err.sub].isd_as)
       /\ Len(system_state.snaps) = err.index
       /\ Cardinality(Bound(io_config.snap_control_addrs, snap_id)) = 1
       /\ Cardinality(DataPlanesOf(snap_id)) = err.sub - 1
       /\ started = 0

C2_Witness ==
  /\ pc = "failed"
  /\ err.stage = "snaps"
  /\ err.index = 2
  /\ err.sub = 2
  /\ Cardinality(DataPlanesOf(snap_id)) = 1

(***************************************************************************)
(* C3 as claimed: after the assembly every registered SNAP, data plane,    *)
(* endhost API and router has exactly one address in the IO config.        *)
(***************************************************************************)
C3_EveryEntityBound ==
  Assembled =>
    /\ \A id \in Ids(system_state.snaps) : Cardinality(Bound(io_config.snap_control_addrs, id)) = 1
    /\ \A id \in Ids(system_state.data_planes) :
         Cardinality(Bound(io_config.snap_data_plane_addrs, id)) = 1
    /\ \A id \in Ids(system_state.endhost_apis) :
         Cardinality(Bound(io_config.endhost_api_addrs, id)) = 1
    /\ \A id \in Ids(system_state.routers) : Cardinality(Bound(AllBindings, id)) = 1

(***************************************************************************)
(* C3 amended: after the assembly every registered SNAP has exactly one    *)
(* control address, every data plane exactly one data plane address and    *)
(* every endhost API exactly one address in the IO config, each the        *)
(* address its declaration gives; a router has no address in the IO        *)
(* config, and the IO config binds no other identifier.                    *)
(***************************************************************************)
C3_Overlay ==
  Assembled =>
    /\ \A k \in 1..Len(system_state.snaps) :
         Bound(io_config.snap_control_addrs, system_state.snaps[k].id)
           = {<<system_state.snaps[k].id, SocketAddr(DeclSnaps[k].listening_addr)>>}
    /\ \A id \in Ids(system_state.data_planes) :
         Cardinality(Bound(io_config.snap_data_plane_addrs, id)) = 1
    /\ \A k \in 1..Len(system_state.endhost_apis) :
         Bound(io_config.endhost_api_addrs, system_state.endhost_apis[k].id)
           = {<<system_state.endhost_apis[k].id, SocketAddr(DeclApis[k].listening_addr)>>}
    /\ \A id \in Ids(system_state.routers) : Bound(AllBindings, id) = {}
    /\ {b[1] : b \in io_config.snap_control_addrs} = Ids(system_state.snaps)
    /\ {b[1] : b \in io_config.snap_data_plane_addrs} = Ids(system_state.data_planes)
    /\ {b[1] : b \in io_config.endhost_api_addrs} = Ids(system_state.endhost_apis)

C3_Witness ==
  /\ pc = "start"
  /\ Len(system_state.snaps) = 1
  /\ Len(system_state.data_planes) = 1
  /\ Cardinality(io_config.snap_data_plane_addrs) = 1
  /\ Len(system_state.endhost_apis) >= 1
  /\ Len(system_state.routers) >= 1

(***************************************************************************)
(* C4: no two registered entities (SNAPs, data planes, endhost APIs,       *)
(* routers) share an identifier, every identifier handed out is below the  *)
(* counter and so is not handed out again, and identifiers follow the      *)
(* declaration order: SNAPs with their data planes, then endhost APIs,     *)
(* then routers.                                                           *)
(***************************************************************************)
C4_InjectiveIds ==
  /\ Cardinality(AllIds) = Registered
  /\ \A id \in AllIds : id < system_state.next_id
  /\ \A k \in 1..Len(system_state.data_planes) :
       /\ system_state.data_planes[k].snap \in Ids(system_state.snaps)
       /\ system_state.data_planes[k].snap < system_state.data_planes[k].id
  /\ \A a \in Ids(system_state.snaps) \cup Ids(system_state.data_planes) :
       \A b \in Ids(system_state.endhost_apis) \cup Ids(system_state.routers) : a < b
  /\ \A a \in Ids(system_state.endhost_apis) : \A b \in Ids(system_state.routers) : a < b
  /\ \A list \in {system_state.snaps, system_state.data_planes, system_state.endhost_apis,
                  system_state.routers} :
       \A a, b \in 1..Len(list) : a < b => list[a].id < list[b].id

C4_Witness ==
  /\ pc = "start"
  /\ Len(system_state.snaps) = 2
  /\ Len(system_state.data_planes) = 3
  /\ Len(system_state.endhost_apis) = 2
  /\ Len(system_state.routers) = 2
  /\ Cardinality(AllIds) = 9

C6_NonEmptyNonZero ==
  \A k \in 1..Len(system_state.routers) :
    /\ system_state.routers[k].interfaces # <<>>
    /\ 0 \notin Range(system_state.routers[k].interfaces)

(***************************************************************************)
(* C6 amended: no registered router has interface id 0, also in the state  *)
(* handed to the runtime; the interface list of a registered router may be *)
(* empty (a declaration with interfaces: [] is registered).                *)
(***************************************************************************)
C6_NonZero ==
  /\ \A k \in 1..Len(system_state.routers) : 0 \notin Range(system_state.routers[k].interfaces)
  /\ \A k \in 1..Len(runtime.system_state.routers) :
       0 \notin Range(runtime.system_state.routers[k].interfaces)
  /\ (Assembled /\ pc # "start") =>
       \A r \in 1..Len(DeclRouters) :
         DeclRouters[r].interfaces = <<>> => runtime.system_state.routers[r].interfaces = <<>>

C6_Witness ==
  /\ pc = "token"
  /\ \E k \in 1..Len(runtime.system_state.routers) :
       runtime.system_state.routers[k].interfaces = <<>>

(***************************************************************************)
(* C7: every AS is added before any link, so a document whose ASes are     *)
(* valid and whose links all name declared ASes (at any position of ases)  *)
(* builds, with one link per link text; a link naming an AS that is not    *)
(* declared fails the build with UnknownAsInLink; both endpoints of every  *)
(* link of a built topology are ASes of the topology.                      *)
(***************************************************************************)
C7_LinkEndpointsExist ==
  /\ (TopologyAttempted /\ UntypedSnaps = {} /\ BadAses = {} /\ BadLinks = {}) =>
       TopologyBuilt /\ Len(topology.links) = Len(DeclLinks)
  /\ (TopologyAttempted /\ UntypedSnaps = {} /\ BadAses = {} /\ BadLinks # {}) =>
       /\ pc = "failed"
       /\ err = ExpectedErr
       /\ topology = ScionTopology_new
  /\ (pc = "failed" /\ err.kind = "UnknownAsInLink") =>
       \E e \in Range(DeclLinks[err.index]) : e \notin DeclAsTexts
  /\ \A k \in 1..Len(topology.links) :
       topology.links[k].a \in TopoIds(topology) /\ topology.links[k].b \in TopoIds(topology)

C7_Witness ==
  /\ pc = "state"
  /\ Len(topology.links) = 2
  /\ topology.links[1] # topology.links[2]

(***************************************************************************)
(* C8: a document declaring an AS identifier twice, whatever the is_core   *)
(* flags, does not build: the build fails with DuplicateAs at the second   *)
(* declaration; a built topology has one AS per declaration, with pairwise *)
(* distinct identifiers.                                                   *)
(***************************************************************************)
C8_UniqueAs ==
  /\ (\E a, b \in 1..Len(DeclAses) : a < b /\ DeclAses[a].isd_as = DeclAses[b].isd_as) =>
       ~TopologyBuilt
  /\ (TopologyAttempted /\ ExpectedErr.kind = "DuplicateAs") => pc = "failed" /\ err = ExpectedErr
  /\ (pc = "failed" /\ err.kind = "DuplicateAs") =>
       \E a \in 1..(err.index - 1) : DeclAses[a].isd_as = DeclAses[err.index].isd_as
  /\ TopologyBuilt =>
       /\ Len(topology.ases) = Len(DeclAses)
       /\ Cardinality(TopoIds(topology)) = Len(DeclAses)

C8_Witness ==
  /\ pc = "failed"
  /\ err.kind = "DuplicateAs"
  /\ err.index = 2
  /\ DeclAses[1].is_core # DeclAses[2].is_core

(***************************************************************************)
(* C9: a built topology holds exactly the declared ASes, each with its     *)
(* is_core flag, and exactly the declared links; it is a function of the   *)
(* document alone, so two builds of one document agree.  The system state  *)
(* holds a copy of it.                                                     *)
(***************************************************************************)
C9_TopologyContent ==
  /\ TopologyBuilt => topology = ExpectedTopology
  /\ (TopologyBuilt /\ pc # "state") => system_state.topology = ExpectedTopology

C9_Witness ==
  /\ pc = "snaps"
  /\ doc.topology = GoodTopology
  /\ Len(system_state.topology.ases) = 2
  /\ Len(system_state.topology.links) = 1
  /\ system_state.topology.ases[1].core
  /\ ~system_state.topology.ases[2].core

(***************************************************************************)
(* C10: the runtime is started at most once, with the built topology and   *)
(* with every declared SNAP, data plane, endhost API and router            *)
(* registered; nothing is started before that; the token is written only   *)
(* after the start succeeded.                                              *)
(***************************************************************************)
C10_StartAfterConstruction ==
  /\ started <= 1
  /\ pc \in {"read", "parse", "topology", "state", "snaps", "data_planes", "endhost_apis",
             "routers", "start"} => started = 0 /\ ~token_written
  /\ started = 1 =>
       /\ runtime.system_state = system_state
       /\ runtime.io_config = io_config
       /\ runtime.system_state.topology = topology
       /\ TopologyBuilt
       /\ Len(runtime.system_state.snaps) = Len(DeclSnaps)
       /\ Len(runtime.system_state.data_planes) = Cardinality(DeclDataPlanes)
       /\ Len(runtime.system_state.endhost_apis) = Len(DeclApis)
       /\ Len(runtime.system_state.routers) = Len(DeclRouters)
  /\ token_written => started = 1 /\ pc \in {"wait", "done"} /\ err = NoErr

C10_Witness ==
  /\ token_written
  /\ pc = "wait"
  /\ Len(runtime.system_state.snaps) = 2
  /\ Len(runtime.system_state.data_planes) = 3
  /\ Len(runtime.system_state.routers) = 2

====
